---- MODULE Spec2Model ----
(***************************************************************************)
(* Model of src/inventory_system.py: class InventoryManager, an in-memory  *)
(* mapping stock_data from item name to quantity, with JSON persistence.   *)
(*                                                                         *)
(* Python values are records [t, v, s]: t is the Python type name, v the   *)
(* numeric value (bool True is 1, False is 0, as in Python arithmetic and  *)
(* comparison), s the text of a str as a sequence of characters.           *)
(* JSON values of a file are records [j, n]: j is the JSON type, n the     *)
(* number.  json.load and json.dump convert between the two.               *)
(***************************************************************************)
EXTENDS Integers, Sequences, FiniteSets, TLC

\* ---------------------------------------------------------------- bounds
\* Largest total quantity an item is allowed to reach by add_item in the
\* model, and largest int argument tried.
MaxQty == 2
\* Largest number of members of a JSON object written by another program.
MaxMembers == 2

\* ---------------------------------------------------------- Python values
PyInt(n) == [t |-> "int", v |-> n, s |-> <<>>]
PyBool(n) == [t |-> "bool", v |-> n, s |-> <<>>]
PyFloat(n) == [t |-> "float", v |-> n, s |-> <<>>]
PyStr(chars) == [t |-> "str", v |-> 0, s |-> chars]
PyNone == [t |-> "NoneType", v |-> 0, s |-> <<>>]

\* isinstance(x, int): bool is a subclass of int.
IsInstanceInt(x) == x.t \in {"int", "bool"}
\* isinstance(x, str)
IsInstanceStr(x) == x.t = "str"

Whitespace == {" "}

RECURSIVE LStrip(_)
LStrip(chars) ==
    IF chars # <<>> /\ Head(chars) \in Whitespace THEN LStrip(Tail(chars)) ELSE chars

RECURSIVE RStrip(_)
RStrip(chars) ==
    IF chars # <<>> /\ chars[Len(chars)] \in Whitespace
    THEN RStrip(SubSeq(chars, 1, Len(chars) - 1))
    ELSE chars

\* str.strip()
Strip(chars) == RStrip(LStrip(chars))

\* "not isinstance(item, str) or not item.strip()"
BadItem(item) == ~IsInstanceStr(item) \/ Strip(item.s) = <<>>

\* ------------------------------------------------------------ JSON values
JNumber(n) == [j |-> "number", n |-> n]
JTrue == [j |-> "true", n |-> 1]
JFalse == [j |-> "false", n |-> 0]
JString == [j |-> "string", n |-> 0]

\* json.load of one value
FromJson(jv) ==
    CASE jv.j = "number" -> PyInt(jv.n)
      [] jv.j = "true" -> PyBool(1)
      [] jv.j = "false" -> PyBool(0)
      [] OTHER -> PyStr(<<"b", "a", "d">>)

\* json.dump of one quantity
ToJson(pv) ==
    CASE pv.t = "int" -> JNumber(pv.v)
      [] pv.t = "bool" -> (IF pv.v = 1 THEN JTrue ELSE JFalse)
      [] OTHER -> JString

\* ------------------------------------------------------------------ dicts
\* A dict is a function from its set of keys to values.
EmptyDict == [k \in {} |-> PyNone]
DictGet(d, k, default) == IF k \in DOMAIN d THEN d[k] ELSE default
DictSet(d, k, val) == [x \in DOMAIN d \cup {k} |-> IF x = k THEN val ELSE d[x]]
DictDel(d, k) == [x \in DOMAIN d \ {k} |-> d[x]]

\* ------------------------------------------------------------------ files
FileMissing == [kind |-> "missing", members |-> <<>>]
FileUnreadable == [kind |-> "directory", members |-> <<>>]
FileInvalidJson == [kind |-> "invalid", members |-> <<>>]
FileJsonArray == [kind |-> "array", members |-> <<>>]
FileJsonObject(ms) == [kind |-> "object", members |-> ms]

\* json.load of an object: members are inserted in order, a repeated key
\* keeps the value of its last member.
RECURSIVE ObjectToDict(_, _)
ObjectToDict(ms, acc) ==
    IF ms = <<>> THEN acc
    ELSE ObjectToDict(Tail(ms), DictSet(acc, Head(ms).k, FromJson(Head(ms).val)))

\* json.dump of a dict: one member per key.
RECURSIVE DictToObject(_, _)
DictToObject(d, keys) ==
    IF keys = {} THEN <<>>
    ELSE LET k == CHOOSE x \in keys : TRUE
         IN <<[k |-> k, val |-> ToJson(d[k])]>> \o DictToObject(d, keys \ {k})

\* -------------------------------------------------- results of one call
\* exc: the exception raised to the caller ("" when the call returns);
\* sd: stock_data after the call; ret: the returned value; low: the names
\* returned by check_low_items (the list, as the set of its elements: dict
\* keys are unique and the order is the dict's); logs: the caller's audit
\* list after the call; file: the file after the call.
Outcome(exc, sd, ret, low, logs, f) ==
    [exc |-> exc, sd |-> sd, ret |-> ret, low |-> low, logs |-> logs, file |-> f]

\* ---------------------------------------------------------------- add_item
\* The logs argument: None, or the caller's list.  When it is None the line
\* goes to a list local to the call and the caller has nothing afterwards.
NoLogs == [given |-> FALSE, lines |-> <<>>]
CallerLogs(lines) == [given |-> TRUE, lines |-> lines]
AppendLog(logs, line) ==
    IF ~logs.given THEN NoLogs ELSE CallerLogs(Append(logs.lines, line))

\* add_item as it would be with the quantity assigned instead of added.
add_item_overwrite(sd, item, qty, logs, f) ==
    IF BadItem(item)
    THEN Outcome("ValueError", sd, PyNone, {}, logs, f)
    ELSE IF ~IsInstanceInt(qty) \/ qty.v < 0
    THEN Outcome("ValueError", sd, PyNone, {}, logs, f)
    ELSE Outcome("", DictSet(sd, item.s, PyInt(qty.v)), PyNone, {},
                 AppendLog(logs, <<"Added", qty, item>>), f)

add_item(sd, item, qty, logs, f) ==
    IF BadItem(item)
    THEN Outcome("ValueError", sd, PyNone, {}, logs, f)
    ELSE IF ~IsInstanceInt(qty) \/ qty.v < 0
    THEN Outcome("ValueError", sd, PyNone, {}, logs, f)
    ELSE LET current == DictGet(sd, item.s, PyInt(0))
             new == DictSet(sd, item.s, PyInt(current.v + qty.v))
         IN Outcome("", new, PyNone, {}, AppendLog(logs, <<"Added", qty, item>>), f)

\* ------------------------------------------------------------- remove_item
\* remove_item as it would be with "new_qty >= 0" deciding what is stored.
remove_item_keeps_zero(sd, item, qty, f) ==
    IF BadItem(item)
    THEN Outcome("ValueError", sd, PyNone, {}, NoLogs, f)
    ELSE IF ~IsInstanceInt(qty) \/ qty.v <= 0
    THEN Outcome("ValueError", sd, PyNone, {}, NoLogs, f)
    ELSE IF item.s \notin DOMAIN sd
    THEN Outcome("KeyError", sd, PyNone, {}, NoLogs, f)
    ELSE LET new_qty == sd[item.s].v - qty.v
         IN IF new_qty >= 0
            THEN Outcome("", DictSet(sd, item.s, PyInt(new_qty)), PyNone, {}, NoLogs, f)
            ELSE Outcome("", DictDel(sd, item.s), PyNone, {}, NoLogs, f)

\* remove_item as it would be over a mapping that creates missing keys on
\* lookup (a defaultdict) before the absence is reported.
remove_item_creates_key(sd, item, qty, f) ==
    IF BadItem(item)
    THEN Outcome("ValueError", sd, PyNone, {}, NoLogs, f)
    ELSE IF ~IsInstanceInt(qty) \/ qty.v <= 0
    THEN Outcome("ValueError", sd, PyNone, {}, NoLogs, f)
    ELSE IF item.s \notin DOMAIN sd
    THEN Outcome("KeyError", DictSet(sd, item.s, PyInt(0)), PyNone, {}, NoLogs, f)
    ELSE LET new_qty == sd[item.s].v - qty.v
         IN IF new_qty > 0
            THEN Outcome("", DictSet(sd, item.s, PyInt(new_qty)), PyNone, {}, NoLogs, f)
            ELSE Outcome("", DictDel(sd, item.s), PyNone, {}, NoLogs, f)

remove_item(sd, item, qty, f) ==
    IF BadItem(item)
    THEN Outcome("ValueError", sd, PyNone, {}, NoLogs, f)
    ELSE IF ~IsInstanceInt(qty) \/ qty.v <= 0
    THEN Outcome("ValueError", sd, PyNone, {}, NoLogs, f)
    ELSE IF item.s \notin DOMAIN sd
    THEN Outcome("KeyError", sd, PyNone, {}, NoLogs, f)
    ELSE LET new_qty == sd[item.s].v - qty.v
         IN IF new_qty > 0
            THEN Outcome("", DictSet(sd, item.s, PyInt(new_qty)), PyNone, {}, NoLogs, f)
            ELSE Outcome("", DictDel(sd, item.s), PyNone, {}, NoLogs, f)

\* ----------------------------------------------------------------- get_qty
get_qty(sd, item, f) ==
    IF BadItem(item)
    THEN Outcome("ValueError", sd, PyNone, {}, NoLogs, f)
    ELSE Outcome("", sd, DictGet(sd, item.s, PyInt(0)), {}, NoLogs, f)

\* --------------------------------------------------------- check_low_items
\* check_low_items as it would be with "q <= threshold".
check_low_items_inclusive(sd, threshold, f) ==
    IF ~IsInstanceInt(threshold) \/ threshold.v < 0
    THEN Outcome("ValueError", sd, PyNone, {}, NoLogs, f)
    ELSE Outcome("", sd, PyNone, {n \in DOMAIN sd : sd[n].v <= threshold.v}, NoLogs, f)

check_low_items(sd, threshold, f) ==
    IF ~IsInstanceInt(threshold) \/ threshold.v < 0
    THEN Outcome("ValueError", sd, PyNone, {}, NoLogs, f)
    ELSE Outcome("", sd, PyNone, {n \in DOMAIN sd : sd[n].v < threshold.v}, NoLogs, f)

\* --------------------------------------------------------------- load_data
\* The record filter of the loop over data.items().
\* The filter as it would be without the range test.
ValidRecord_no_range(key, value) ==
    IsInstanceStr(PyStr(key)) /\ IsInstanceInt(value)

\* The filter as it would be with "value > 0".
ValidRecord_positive(key, value) ==
    IsInstanceStr(PyStr(key)) /\ IsInstanceInt(value) /\ value.v > 0

ValidRecord(key, value) ==
    IsInstanceStr(PyStr(key)) /\ IsInstanceInt(value) /\ value.v >= 0

\* load_data as it would be with every failure handled like a missing file.
load_data_reset_on_error(sd, f) ==
    CASE f.kind \in {"missing", "directory", "invalid", "array"} ->
            Outcome("", EmptyDict, PyNone, {}, NoLogs, f)
      [] OTHER ->
            LET data == ObjectToDict(f.members, EmptyDict)
                cleaned == [k \in {x \in DOMAIN data : IsInstanceInt(data[x]) /\ data[x].v >= 0}
                              |-> data[k]]
            IN Outcome("", cleaned, PyNone, {}, NoLogs, f)

load_data(sd, f) ==
    CASE f.kind = "missing" -> Outcome("", EmptyDict, PyNone, {}, NoLogs, f)
      [] f.kind \in {"directory", "invalid", "array"} ->
            Outcome("", sd, PyNone, {}, NoLogs, f)
      [] OTHER ->
            LET data == ObjectToDict(f.members, EmptyDict)
                cleaned == [k \in {x \in DOMAIN data : ValidRecord(x, data[x])}
                              |-> data[k]]
            IN Outcome("", cleaned, PyNone, {}, NoLogs, f)

\* --------------------------------------------------------------- save_data
save_data(sd, f) ==
    IF f.kind = "directory"
    THEN Outcome("OSError", sd, PyNone, {}, NoLogs, f)
    ELSE Outcome("", sd, PyNone, {}, NoLogs, FileJsonObject(DictToObject(sd, DOMAIN sd)))

\* ------------------------------------------------------------------ inputs
NameA == <<"a">>
NameB == <<" ", "b">>
Blank == <<" ">>
ItemArgs == {PyStr(NameA), PyStr(NameB), PyStr(Blank), PyNone}
QtyArgs == {PyInt(n) : n \in -1..MaxQty} \cup {PyBool(1), PyFloat(1)}
ThresholdArgs == QtyArgs
LogsArgs == {NoLogs, CallerLogs(<<>>)}

\* Members of JSON objects that another program may have written.
ExternalMembers ==
    {[k |-> NameA, val |-> jv] :
        jv \in {JNumber(-1), JTrue, JString}}
    \cup {[k |-> Blank, val |-> JNumber(1)]}

RECURSIVE SeqsUpTo(_, _)
SeqsUpTo(S, n) ==
    IF n = 0 THEN {<<>>}
    ELSE LET shorter == SeqsUpTo(S, n - 1)
         IN shorter \cup {Append(q, x) : q \in shorter, x \in S}

ExternalFiles ==
    {FileMissing, FileUnreadable, FileInvalidJson, FileJsonArray}
    \cup {FileJsonObject(ms) : ms \in SeqsUpTo(ExternalMembers, MaxMembers)}

\* ------------------------------------------------------------------- state
VARIABLES
    stock_data,   \* InventoryManager.stock_data
    file,         \* the file at file_path
    last,         \* the call that has just returned or raised: operation,
                  \* arguments, result; Idle once the caller has taken it
    pre,          \* stock_data before that call
    phase,        \* "adds": only add_item has changed the store so far;
                  \* "addrem": remove_item was called, load_data never; "any"
    added,        \* while phase = "adds": the sum of the quantities added per name
    saved         \* the mapping of the last successful save_data, valid while
                  \* the file has not been written by anything else

vars == <<stock_data, file, last, pre, phase, added, saved>>

Call(op, item, qty, r) ==
    [op |-> op, item |-> item, qty |-> qty, exc |-> r.exc, ret |-> r.ret,
     low |-> r.low, logs |-> r.logs]

NoSnapshot == [valid |-> FALSE, data |-> EmptyDict]

\* No call is in progress and no result is pending: the store is synchronous
\* and single-threaded, a call starts only after the one before has returned.
Idle == Call("", PyNone, PyNone, Outcome("", EmptyDict, PyNone, {}, NoLogs, FileMissing))

Init ==
    /\ stock_data = EmptyDict
    /\ file = FileMissing
    /\ last = Idle
    /\ pre = EmptyDict
    /\ phase = "adds"
    /\ added = EmptyDict
    /\ saved = NoSnapshot

AddItem ==
    \E item \in ItemArgs, qty \in QtyArgs, logs \in LogsArgs :
        LET r == add_item(stock_data, item, qty, logs, file)
        IN /\ last = Idle
           /\ r.exc = "" => DictGet(r.sd, item.s, PyInt(0)).v <= MaxQty
           /\ stock_data' = r.sd
           /\ file' = r.file
           /\ last' = Call("add_item", item, qty, r)
           /\ pre' = stock_data
           /\ added' = IF phase = "adds" /\ r.exc = ""
                       THEN DictSet(added, item.s, DictGet(added, item.s, 0) + qty.v)
                       ELSE added
           /\ UNCHANGED <<phase, saved>>

RemoveItem ==
    \E item \in ItemArgs, qty \in QtyArgs :
        LET r == remove_item(stock_data, item, qty, file)
        IN /\ last = Idle
           /\ stock_data' = r.sd
           /\ file' = r.file
           /\ last' = Call("remove_item", item, qty, r)
           /\ pre' = stock_data
           /\ phase' = IF phase = "adds" THEN "addrem" ELSE phase
           /\ added' = EmptyDict
           /\ UNCHANGED saved

GetQty ==
    \E item \in ItemArgs :
        LET r == get_qty(stock_data, item, file)
        IN /\ last = Idle
           /\ stock_data' = r.sd
           /\ file' = r.file
           /\ last' = Call("get_qty", item, PyNone, r)
           /\ pre' = stock_data
           /\ UNCHANGED <<phase, added, saved>>

CheckLowItems ==
    \E threshold \in ThresholdArgs :
        LET r == check_low_items(stock_data, threshold, file)
        IN /\ last = Idle
           /\ stock_data' = r.sd
           /\ file' = r.file
           /\ last' = Call("check_low_items", PyNone, threshold, r)
           /\ pre' = stock_data
           /\ UNCHANGED <<phase, added, saved>>

LoadData ==
    LET r == load_data(stock_data, file)
    IN /\ last = Idle
       /\ stock_data' = r.sd
       /\ file' = r.file
       /\ last' = Call("load_data", PyNone, PyNone, r)
       /\ pre' = stock_data
       /\ phase' = "any"
       /\ added' = EmptyDict
       /\ UNCHANGED saved

SaveData ==
    LET r == save_data(stock_data, file)
    IN /\ last = Idle
       /\ stock_data' = r.sd
       /\ file' = r.file
       /\ last' = Call("save_data", PyNone, PyNone, r)
       /\ pre' = stock_data
       /\ saved' = IF r.exc = "" THEN [valid |-> TRUE, data |-> stock_data] ELSE saved
       /\ UNCHANGED <<phase, added>>

\* Another program replaces, deletes or damages the file.
WriteFile ==
    \E f \in ExternalFiles :
        /\ last = Idle
        /\ file' = f
        /\ saved' = NoSnapshot
        /\ UNCHANGED <<stock_data, last, pre, phase, added>>

\* The caller takes the result or the exception of the call and goes on.
Return ==
    /\ last # Idle
    /\ last' = Idle
    /\ pre' = EmptyDict
    /\ UNCHANGED <<stock_data, file, phase, added, saved>>

Next ==
    \/ AddItem
    \/ RemoveItem
    \/ GetQty
    \/ CheckLowItems
    \/ LoadData
    \/ SaveData
    \/ WriteFile
    \/ Return

Spec == Init /\ [][Next]_vars

\* ------------------------------------------------------------------ claims
ValidItems == {item \in ItemArgs : ~BadItem(item)}

\* The keys other than k are the same, with the same quantities, in d and e.
OthersUnchanged(d, e, k) ==
    /\ DOMAIN d \ {k} = DOMAIN e \ {k}
    /\ \A x \in DOMAIN d \ {k} : d[x] = e[x]

\* C1: in every reachable state every quantity stored in stock_data is an
\* integer (a Python int, of which bool is a subclass) that is >= 0.
C1_QuantitiesNonNegative ==
    \A k \in DOMAIN stock_data :
        stock_data[k].t \in {"int", "bool"} /\ stock_data[k].v >= 0

\* load_data has filtered a file holding a negative quantity and kept another entry.
C1_Witness ==
    /\ last.op = "load_data"
    /\ file.kind = "object"
    /\ \E i \in 1..Len(file.members) : file.members[i].val = JNumber(-1)
    /\ stock_data # EmptyDict

\* C2: while only add_item and remove_item have been called (load_data
\* never), no key of stock_data maps to quantity 0.
C2_NoZeroEntry ==
    phase \in {"adds", "addrem"} => \A k \in DOMAIN stock_data : stock_data[k].v # 0

\* C3: while only add_item has changed the store, get_qty of every valid
\* name returns the sum of the quantities added under it; and every
\* successful add_item sets the item to its previous quantity (0 if absent)
\* plus qty and leaves the other items as they were.
C3_AddSums ==
    /\ phase = "adds" =>
          \A item \in ValidItems :
              get_qty(stock_data, item, file).ret = PyInt(DictGet(added, item.s, 0))
    /\ (last.op = "add_item" /\ last.exc = "") =>
          /\ last.item.s \in DOMAIN stock_data
          /\ stock_data[last.item.s] =
                PyInt(DictGet(pre, last.item.s, PyInt(0)).v + last.qty.v)
          /\ OthersUnchanged(pre, stock_data, last.item.s)

\* A second add under a name that already had a positive quantity, with
\* another item in the store, nothing but add_item having run.
C3_Witness ==
    /\ phase = "adds"
    /\ last.op = "add_item" /\ last.exc = ""
    /\ last.item.s \in DOMAIN pre /\ pre[last.item.s].v >= 1
    /\ last.qty.v >= 1
    /\ DOMAIN stock_data \ {last.item.s} # {}

\* C4: a successful remove_item of qty from an item of quantity q stores
\* q - qty when that is > 0 and otherwise deletes the key, so that get_qty
\* returns 0 and the key is absent; the other keys are unchanged.
C4_RemoveEffect ==
    (last.op = "remove_item" /\ last.exc = "") =>
        /\ last.item.s \in DOMAIN pre
        /\ LET k == last.item.s
               rest == pre[k].v - last.qty.v
           IN /\ rest > 0 => k \in DOMAIN stock_data /\ stock_data[k] = PyInt(rest)
              /\ rest <= 0 =>
                    /\ k \notin DOMAIN stock_data
                    /\ get_qty(stock_data, last.item, file).ret = PyInt(0)
              /\ OthersUnchanged(pre, stock_data, k)

\* remove_item of exactly the stored quantity has deleted the key, another
\* item staying in the store.
C4_Witness ==
    /\ last.op = "remove_item" /\ last.exc = ""
    /\ last.item.s \in DOMAIN pre
    /\ pre[last.item.s].v = last.qty.v
    /\ last.item.s \notin DOMAIN stock_data
    /\ stock_data # EmptyDict

\* C5: a call of add_item, remove_item, get_qty or check_low_items that
\* raises ValueError or KeyError leaves stock_data as it was; a remove_item
\* of an absent item does not create the key.
C5_FailedCallsChangeNothing ==
    (/\ last.op \in {"add_item", "remove_item", "get_qty", "check_low_items"}
     /\ last.exc \in {"ValueError", "KeyError"}) =>
        /\ stock_data = pre
        /\ last.exc = "KeyError" => last.item.s \notin DOMAIN stock_data

\* remove_item of an absent item has raised KeyError on a store holding
\* other items.
C5_Witness ==
    /\ last.op = "remove_item" /\ last.exc = "KeyError"
    /\ stock_data # EmptyDict

\* The JSON object of a file as json.load reads it: the value of each key
\* is that of its last member.
RECURSIVE JsonObject(_, _)
JsonObject(ms, acc) ==
    IF ms = <<>> THEN acc
    ELSE JsonObject(Tail(ms), DictSet(acc, Head(ms).k, Head(ms).val))

\* C6: after load_data of a file holding a JSON object, stock_data is
\* exactly that object's entries whose value is a JSON integer >= 0, and
\* nothing of the prior mapping survives.
C6_LoadKeepsExactlyIntegers ==
    (last.op = "load_data" /\ file.kind = "object") =>
        LET obj == JsonObject(file.members, EmptyDict)
            kept == {k \in DOMAIN obj : obj[k].j = "number" /\ obj[k].n >= 0}
        IN stock_data = [k \in kept |-> PyInt(obj[k].n)]

C8_RoundTrip ==
    /\ (last.op = "load_data" /\ saved.valid) => stock_data = saved.data
    /\ last.op = "save_data" => stock_data = pre

\* A mapping with a zero quantity was saved, the store changed afterwards,
\* and load_data has brought the saved mapping back.
C8_Witness ==
    /\ last.op = "load_data" /\ saved.valid
    /\ \E k \in DOMAIN stock_data : stock_data[k].v = 0
    /\ pre # stock_data

\* C9: every key of stock_data is a string that is non-empty after trimming
\* whitespace.
C9_KeysAreItemNames ==
    \A k \in DOMAIN stock_data : Strip(k) # <<>>

\* C10: check_low_items of an integer threshold >= 0 returns exactly the
\* names whose quantity is strictly below it and changes nothing; any other
\* threshold raises ValueError.
C10_LowItems ==
    last.op = "check_low_items" =>
        /\ stock_data = pre
        /\ IF last.qty.t \in {"int", "bool"} /\ last.qty.v >= 0
           THEN /\ last.exc = ""
                /\ \A n \in DOMAIN pre \cup last.low :
                      n \in last.low <=> (n \in DOMAIN pre /\ pre[n].v < last.qty.v)
                /\ last.qty.v = 0 => last.low = {}
           ELSE last.exc = "ValueError" /\ last.low = {}

\* check_low_items has reported one item and left out another whose
\* quantity equals the threshold.
C10_Witness ==
    /\ last.op = "check_low_items" /\ last.exc = ""
    /\ last.low # {}
    /\ \E n \in DOMAIN stock_data : stock_data[n].v = last.qty.v /\ n \notin last.low

====
